---- MODULE Spec2Model ----
(***************************************************************************)
(* micro-include: the <micro-include> custom element of                    *)
(* docs/microinclude.js, version 0.2.2 (lines 164-314).                    *)
(*                                                                         *)
(* The page holds NumEl placeholders under one parent.  Every placeholder  *)
(* runs connectedCallback; each await of the code (fetch, response.text,   *)
(* loadScript, _insertContent) is a suspension point, and the code between *)
(* two suspension points is one atomic action.  Strings (URLs, declared    *)
(* sources) are sequences of tokens, so that URL resolution is computed    *)
(* and not assumed.                                                        *)
(*                                                                         *)
(* Spec is a page whose fragments hold no placeholders; SpecSite is a page *)
(* whose fragments bring placeholders of their own, which replaceWith      *)
(* connects; SpecResolver applies the URL resolution of the file's three   *)
(* variants of connectedCallback to declared sources on several pages.     *)
(* SpecFair is Spec where every fetch, every script load and every         *)
(* continuation of a settled await eventually happens.                     *)
(***************************************************************************)
EXTENDS Naturals, Sequences, FiniteSets

\* Number of <micro-include> elements in the host page's markup.
NumEl == 2

Els == 1..NumEl

\* Greatest depth to which the model follows placeholders that arrive inside
\* fetched fragments.
MaxDepth == 2

\* The elements of a page whose fragments bring placeholders of their own:
\* the fragment of element e brings at most one, Child(e).
Ids == 1..(NumEl * (1 + MaxDepth))

Child(e) == e + NumEl

VARIABLES
    srcAttr,          \* el -> value of the src attribute (token sequence, <<>> when absent)
    attrs,            \* el -> set of boolean attributes present on the element
    DOMPurify,        \* TRUE when DOMPurify.sanitize is defined on the page
    includedSources,  \* MicroInclude.includedSources
    loadedScripts,    \* MicroInclude.loadedScripts
    pc,               \* el -> position of its connectedCallback
    nextSibling,      \* el -> node captured at line 185
    candidate1,       \* el -> url computed at line 189
    html,             \* el -> the html handed to _insertContent
    extIdx,           \* el -> index in `external` of the script being loaded
    insertResult,     \* el -> how the promise of _insertContent settled
    doc,              \* child nodes of the placeholders' parent, in order
    head,             \* script elements appended to document.head, in order
    shadow,           \* el -> content of its shadow root (showError)
    requests,         \* el -> number of fetch() calls issued by the element
    outcome,          \* el -> how connectedCallback ended
    sanitizeCalls,    \* elements whose html was passed to DOMPurify.sanitize
    returnedBefore,   \* el -> the elements whose callback had ended when its own began
    console,          \* diagnostics written with console.warn / console.error
    verbose,          \* window.verbose
    alerts,           \* elements for which window.alert was called
    resolver          \* a declared source, the page it stands on, and the urls
                      \* the variants of connectedCallback resolve it to

vars == <<srcAttr, attrs, DOMPurify, includedSources, loadedScripts, pc,
          nextSibling, candidate1, html, extIdx, insertResult, doc, head,
          shadow, requests, outcome, sanitizeCalls, returnedBefore, console,
          verbose, alerts, resolver>>

-----------------------------------------------------------------------------
(* Strings and URLs                                                        *)

Schemes == {"http:", "https:"}
Hosts == {"host", "other", "user.github.io"}
InvalidURL == <<"TypeError">>

\* The page: window.location and document.baseURI (no <base> element).
baseURI == <<"http:", "//", "host", "/", "docs", "/", "index.html">>

Origin(url) == SubSeq(url, 1, 3)

locationOrigin == Origin(baseURI)

\* An absolute URL string the URL parser accepts.
IsAbsolute(s) ==
    /\ Len(s) >= 3
    /\ s[1] \in Schemes
    /\ s[2] = "//"
    /\ s[3] \in Hosts

\* Serialisation of a parsed URL: an empty path is written "/".
Href(u) == IF Len(u) = 3 THEN u \o <<"/">> ELSE u

\* Index of the last "/" of the path of an absolute URL (its directory).
LastSlash(u) ==
    IF \E i \in 4..Len(u) : u[i] = "/"
    THEN CHOOSE i \in 4..Len(u) : u[i] = "/" /\ \A j \in (i+1)..Len(u) : u[j] # "/"
    ELSE 3

\* new URL(s, base).href; InvalidURL when the constructor throws.
Resolve(s, base) ==
    IF ~IsAbsolute(base) THEN InvalidURL
    ELSE IF s = <<>> THEN Href(base)
    ELSE IF s[1] \in Schemes /\ Len(s) >= 2 /\ s[2] = "//"
         THEN IF IsAbsolute(s) THEN Href(s) ELSE InvalidURL
    ELSE IF s[1] = "//" \/ (Len(s) >= 2 /\ s[1] = "\\" /\ s[2] = "\\")
         THEN LET rest == IF s[1] = "//" THEN Tail(s) ELSE Tail(Tail(s))
                  u == <<base[1], "//">> \o rest
              IN IF IsAbsolute(u) THEN Href(u) ELSE InvalidURL
    ELSE IF s[1] = "/" THEN Origin(base) \o s
    ELSE IF LastSlash(base) = 3 THEN Origin(base) \o <<"/">> \o s
    ELSE SubSeq(base, 1, LastSlash(base)) \o s

\* /^\w+:\/\//.test(srcAttr) || srcAttr.startsWith("//")
isFullUrl(s) ==
    \/ Len(s) >= 2 /\ s[1] \in Schemes /\ s[2] = "//"
    \/ Len(s) >= 1 /\ s[1] = "//"

\* Lines 188-189: the url the source is fetched from, given document.baseURI.
primaryCandidate(s, documentBaseURI) ==
    IF isFullUrl(s) THEN s ELSE Resolve(s, documentBaseURI)

isExternalReferenceAlwaysFalse(src) == FALSE

\* isExternalReference(src)
isExternalReference(src) ==
    LET u == Resolve(src, baseURI)
    IN IF u = InvalidURL THEN FALSE ELSE Origin(u) # locationOrigin

-----------------------------------------------------------------------------
(* The declared sources and the attribute sets of the page's placeholders  *)

SrcMissing == <<>>
SrcRelative == <<"a.html">>
SrcAbsolute == <<"http:", "//", "host", "/", "docs", "/", "a.html">>
SrcCrossOrigin == <<"https:", "//", "other", "/", "x.html">>
\* "\\[" : not a full URL for line 188, and new URL rejects its host.
SrcMalformed == <<"\\", "\\", "[">>
\* A fragment that holds a placeholder for itself.
SrcNesting == <<"n.html">>

Declaration(src, attributes) == [src |-> src, attrs |-> attributes]

\* The <micro-include> tags a page is written with.
Declarations ==
    { Declaration(SrcMissing, {}),
      Declaration(SrcRelative, {}),
      Declaration(SrcAbsolute, {}),
      Declaration(SrcAbsolute, {"multiple", "allow-scripts"}),
      Declaration(SrcCrossOrigin, {}),
      Declaration(SrcCrossOrigin, {"allow-untrusted"}),
      Declaration(SrcMalformed, {}) }

\* The tags of a page whose fragments bring placeholders of their own.
SiteDeclarations ==
    { Declaration(SrcNesting, {}),
      Declaration(SrcRelative, {}) }

hasAttribute(e, name) == name \in attrs[e]

-----------------------------------------------------------------------------
(* What the network serves                                                 *)

Element(tag, src, code) == [tag |-> tag, src |-> src, code |-> code]

UrlA == <<"http:", "//", "host", "/", "docs", "/", "a.html">>
UrlX == <<"https:", "//", "other", "/", "x.html">>
UrlS == <<"http:", "//", "host", "/", "docs", "/", "s.js">>
UrlT == <<"http:", "//", "host", "/", "docs", "/", "t.js">>
UrlN == <<"http:", "//", "host", "/", "docs", "/", "n.html">>

\* The markup served at each url: elements in document order.
FragmentOf(url) ==
    IF url = UrlA
    THEN << Element("b", <<>>, ""),
            Element("script", <<"s.js">>, ""),
            Element("script", <<"/", "docs", "/", "t.js">>, ""),
            Element("script", <<>>, "ia") >>
    ELSE IF url = UrlX
    THEN << Element("p", <<>>, ""),
            Element("script", UrlS, ""),
            Element("script", <<>>, "ix") >>
    ELSE IF url = UrlN
    THEN << Element("i", <<>>, ""),
            Element("micro-include", SrcNesting, ""),
            Element("script", <<"s.js">>, "") >>
    ELSE <<>>

\* The ways fetch(url) can settle: it rejects when the url does not parse.
FetchOutcomes(url) ==
    IF Resolve(url, baseURI) = InvalidURL THEN {"reject"}
    ELSE {"ok", "status", "reject"}

\* DOMPurify.sanitize(html): script elements are dropped.
Sanitize(h) == SelectSeq(h, LAMBDA n : n.tag # "script")

-----------------------------------------------------------------------------
(* The document                                                            *)

Node(kind, el, tag, code) == [kind |-> kind, el |-> el, tag |-> tag, code |-> code]

NoNode == Node("null", 0, "", "")

Placeholder(e) == Node("micro-include", e, "micro-include", "")

Whitespace(i) == Node("text", i, "#text", "")

\* The host page: the placeholders written one after another in document
\* order, then the line break that ends the markup.  Every placeholder but
\* the last has another placeholder as its next sibling.
RECURSIVE HostMarkup(_)
HostMarkup(n) ==
    IF n = 0 THEN <<Whitespace(0)>>
    ELSE <<Placeholder(NumEl - n + 1)>> \o HostMarkup(n - 1)

Range(f) == {f[i] : i \in DOMAIN f}

IndexOf(d, node) == CHOOSE i \in DOMAIN d : d[i] = node

\* node.nextSibling
NextSiblingOf(d, node) ==
    IF node \in Range(d) /\ IndexOf(d, node) < Len(d)
    THEN d[IndexOf(d, node) + 1]
    ELSE NoNode

\* container.querySelectorAll('script[src]')
external(h) == SelectSeq(h, LAMBDA n : n.tag = "script" /\ n.src # <<>>)

\* container.querySelectorAll('script:not([src])')
inline(h) == SelectSeq(h, LAMBDA n : n.tag = "script" /\ n.src = <<>>)

\* container.childNodes once the scripts are removed
childNodes(h) == SelectSeq(h, LAMBDA n : n.tag # "script")

\* The nodes of element e's fragment as they appear in the document; a
\* <micro-include> tag of the fragment is a placeholder element of its own.
Adopt(e, ns, kind) ==
    [i \in DOMAIN ns |->
        IF ns[i].tag = "micro-include" THEN Placeholder(Child(e))
        ELSE Node(kind, e, ns[i].tag, ns[i].code)]

\* The src attributes of the <micro-include> tags among the fragment's nodes.
nested(h) ==
    LET tags == SelectSeq(h, LAMBDA n : n.tag = "micro-include")
    IN [i \in DOMAIN tags |-> tags[i].src]

\* this.replaceWith(...nodes): nothing happens when `this` has no parent.
replaceWith(d, e, nodes) ==
    IF Placeholder(e) \in Range(d)
    THEN LET i == IndexOf(d, Placeholder(e))
         IN SubSeq(d, 1, i - 1) \o nodes \o SubSeq(d, i + 1, Len(d))
    ELSE d

\* parent.insertBefore(node, ref) throws NotFoundError when ref is not a child.
insertBeforeThrows(d, ref) == ref # NoNode /\ ref \notin Range(d)

\* parent.insertBefore of every node of `nodes` in turn, each before `ref`.
insertBefore(d, nodes, ref) ==
    IF nodes = <<>> THEN d
    ELSE IF ref = NoNode THEN d \o nodes
    ELSE LET i == IndexOf(d, ref)
         IN SubSeq(d, 1, i - 1) \o nodes \o SubSeq(d, i, Len(d))

\* The src of every script element of the page: document.scripts.
documentScripts(hd) == {hd[i].src : i \in DOMAIN hd}

-----------------------------------------------------------------------------
(* Initial state: the page as parsed, no callback has run yet              *)

\* The page written with tags drawn from `declarations`; `ids` are the
\* elements the page can come to hold, of which those of Els are in its
\* markup and the others do not exist yet.
InitPage(ids, declarations, flags) ==
    /\ \E page \in [Els -> declarations] :
          /\ srcAttr = [e \in ids |-> IF e \in Els THEN page[e].src ELSE <<>>]
          /\ attrs = [e \in ids |-> IF e \in Els THEN page[e].attrs ELSE {}]
    /\ DOMPurify \in BOOLEAN
    /\ verbose \in flags
    /\ alerts = {}
    /\ resolver = [src |-> <<>>, location |-> baseURI, base |-> <<>>,
                   candidate1 |-> <<>>, srcUrl |-> <<>>, srcUrlPages |-> <<>>]
    /\ includedSources = {}
    /\ loadedScripts = {}
    /\ pc = [e \in ids |-> IF e \in Els THEN "attached" ELSE "absent"]
    /\ nextSibling = [e \in ids |-> NoNode]
    /\ candidate1 = [e \in ids |-> <<>>]
    /\ html = [e \in ids |-> <<>>]
    /\ extIdx = [e \in ids |-> 0]
    /\ insertResult = [e \in ids |-> "pending"]
    /\ doc = HostMarkup(NumEl)
    /\ head = <<>>
    /\ shadow = [e \in ids |-> ""]
    /\ requests = [e \in ids |-> 0]
    /\ outcome = [e \in ids |-> "none"]
    /\ sanitizeCalls = {}
    /\ returnedBefore = [e \in ids |-> {}]
    /\ console = {}

\* A page whose fragments hold no placeholders; window.verbose is not set.
Init == InitPage(Els, Declarations, {FALSE})

\* A page whose fragments may hold placeholders, window.verbose set or not.
InitSite == InitPage(Ids, SiteDeclarations, BOOLEAN)

-----------------------------------------------------------------------------
(* Steps of connectedCallback and _insertContent                           *)

Log(level, e, msg) == [level |-> level, el |-> e, msg |-> msg]

\* showError(message)
showError(e, message) == shadow' = [shadow EXCEPT ![e] = message]

ReportFailureMarkingSource(e) ==
    /\ showError(e, "Error loading content")
    /\ console' = console \cup {Log("error", e, "Failed to load")}
    /\ outcome' = [outcome EXCEPT ![e] = "error"]
    /\ pc' = [pc EXCEPT ![e] = "returned"]
    /\ includedSources' = includedSources \cup {candidate1[e]}

ReportFailureSilent(e) ==
    /\ shadow' = shadow
    /\ console' = console \cup {Log("error", e, "Failed to load")}
    /\ outcome' = [outcome EXCEPT ![e] = "error"]
    /\ pc' = [pc EXCEPT ![e] = "returned"]
    /\ UNCHANGED includedSources

\* The catch of line 204 followed by the error report of lines 230-231,
\* which ends connectedCallback: nothing is marked included.
ReportFailure(e) ==
    /\ showError(e, "Error loading content")
    /\ console' = console \cup {Log("error", e, "Failed to load")}
    /\ outcome' = [outcome EXCEPT ![e] = "error"]
    /\ pc' = [pc EXCEPT ![e] = "returned"]
    /\ UNCHANGED includedSources

RECURSIVE NextScriptRegistryOnly(_, _, _, _, _)
NextScriptRegistryOnly(ext, k, baseUrl, loaded, hd) ==
    IF k > Len(ext) THEN [kind |-> "end", idx |-> k, src |-> <<>>]
    ELSE LET resolvedSrc == Resolve(ext[k].src, baseUrl)
         IN IF resolvedSrc = InvalidURL
            THEN [kind |-> "throw", idx |-> k, src |-> <<>>]
            ELSE IF resolvedSrc \in loaded
            THEN NextScriptRegistryOnly(ext, k + 1, baseUrl, loaded, hd)
            ELSE [kind |-> "load", idx |-> k, src |-> resolvedSrc]

\* The external-script loop (lines 244-260) from index k on: the first script
\* that has to be loaded, the end of the list, or a throw of new URL.
RECURSIVE NextScript(_, _, _, _, _)
NextScript(ext, k, baseUrl, loaded, hd) ==
    IF k > Len(ext) THEN [kind |-> "end", idx |-> k, src |-> <<>>]
    ELSE LET resolvedSrc == Resolve(ext[k].src, baseUrl)
         IN IF resolvedSrc = InvalidURL
            THEN [kind |-> "throw", idx |-> k, src |-> <<>>]
            ELSE IF resolvedSrc \in loaded \/ resolvedSrc \in documentScripts(hd)
            THEN NextScript(ext, k + 1, baseUrl, loaded, hd)
            ELSE [kind |-> "load", idx |-> k, src |-> resolvedSrc]

\* The custom element reaction that runs when replaceWith connects a
\* placeholder c that came with a fragment: its connectedCallback up to the
\* first await (lines 175-194), in the document d.  The tag carries no
\* `multiple` attribute.
reaction(c, src, d) ==
    LET ended == [pc |-> "returned", outcome |-> "none", shadow |-> "",
                  nextSibling |-> NoNode, candidate1 |-> <<>>, requests |-> 0]
        sibling == NextSiblingOf(d, Placeholder(c))
    IN IF src = <<>>
       THEN [ended EXCEPT !.outcome = "required",
                          !.shadow = "'src' attribute is required."]
       ELSE IF src \in includedSources
       THEN [ended EXCEPT !.outcome = "skipped"]
       ELSE IF ~isFullUrl(src) /\ Resolve(src, baseURI) = InvalidURL
       THEN [ended EXCEPT !.pc = "rejected", !.outcome = "uncaught",
                          !.nextSibling = sibling]
       ELSE [ended EXCEPT !.pc = "fetch", !.nextSibling = sibling,
                          !.candidate1 = primaryCandidate(src, baseURI),
                          !.requests = 1]

\* The fields of the elements after replaceWith has put the nodes of e's
\* fragment h into the document, which is then d: the placeholder the
\* fragment brings is connected and its reaction runs before replaceWith
\* returns.  The pipeline of e stands at `at`.
Connect(e, h, d, at) ==
    IF nested(h) = <<>>
    THEN /\ pc' = [pc EXCEPT ![e] = at]
         /\ UNCHANGED <<srcAttr, attrs, nextSibling, candidate1, requests,
                        outcome, shadow, returnedBefore>>
    ELSE LET c == Child(e)
             r == reaction(c, nested(h)[1], d)
         IN /\ c \in DOMAIN pc
            /\ pc' = [pc EXCEPT ![e] = at, ![c] = r.pc]
            /\ srcAttr' = [srcAttr EXCEPT ![c] = nested(h)[1]]
            /\ attrs' = [attrs EXCEPT ![c] = {}]
            /\ nextSibling' = [nextSibling EXCEPT ![c] = r.nextSibling]
            /\ candidate1' = [candidate1 EXCEPT ![c] = r.candidate1]
            /\ requests' = [requests EXCEPT ![c] = r.requests]
            /\ outcome' = [outcome EXCEPT ![c] = r.outcome]
            /\ shadow' = [shadow EXCEPT ![c] = r.shadow]
            /\ returnedBefore' = [returnedBefore EXCEPT ![c] =
                    {x \in DOMAIN pc : pc[x] \in {"returned", "rejected"}}]

insertContentFromNoAwait(e, k, h, hd) ==
    LET nxt == NextScript(external(h), k, candidate1[e], loadedScripts', hd)
        replaced == replaceWith(doc, e, Adopt(e, childNodes(h), "node"))
        started == IF nxt.kind = "load"
                   THEN Append(hd, [src |-> nxt.src, state |-> "loading", el |-> e])
                   ELSE hd
    IN /\ head' = started
       /\ UNCHANGED <<srcAttr, attrs, nextSibling, candidate1, requests,
                      outcome, shadow, returnedBefore>>
       /\ IF nxt.kind = "throw"
             \/ (inline(h) # <<>> /\ insertBeforeThrows(replaced, nextSibling[e]))
          THEN /\ doc' = IF nxt.kind = "throw" THEN doc ELSE replaced
               /\ insertResult' = [insertResult EXCEPT ![e] = "rejected"]
          ELSE /\ doc' = insertBefore(replaced, Adopt(e, inline(h), "script"),
                                      nextSibling[e])
               /\ insertResult' = [insertResult EXCEPT ![e] = "resolved"]
       /\ pc' = [pc EXCEPT ![e] = "insertContent"]
       /\ UNCHANGED extIdx

\* _insertContent from the k-th external script up to its next await or its
\* end (lines 244-271); h is the html being inserted, hd the scripts of
\* document.head when the loop resumes.
insertContentFrom(e, k, h, hd) ==
    LET nxt == NextScript(external(h), k, candidate1[e], loadedScripts', hd)
        replaced == replaceWith(doc, e, Adopt(e, childNodes(h), "node"))
    IN CASE nxt.kind = "load" ->
              /\ head' = Append(hd, [src |-> nxt.src, state |-> "loading", el |-> e])
              /\ extIdx' = [extIdx EXCEPT ![e] = nxt.idx]
              /\ pc' = [pc EXCEPT ![e] = "loadScript"]
              /\ UNCHANGED <<doc, insertResult, srcAttr, attrs, nextSibling,
                             candidate1, requests, outcome, shadow, returnedBefore>>
         [] nxt.kind = "throw" ->
              /\ insertResult' = [insertResult EXCEPT ![e] = "rejected"]
              /\ pc' = [pc EXCEPT ![e] = "insertContent"]
              /\ head' = hd
              /\ UNCHANGED <<doc, extIdx, srcAttr, attrs, nextSibling,
                             candidate1, requests, outcome, shadow, returnedBefore>>
         [] nxt.kind = "end" ->
              /\ IF inline(h) # <<>> /\ insertBeforeThrows(replaced, nextSibling[e])
                 THEN /\ doc' = replaced
                      /\ insertResult' = [insertResult EXCEPT ![e] = "rejected"]
                 ELSE /\ doc' = insertBefore(replaced, Adopt(e, inline(h), "script"),
                                             nextSibling[e])
                      /\ insertResult' = [insertResult EXCEPT ![e] = "resolved"]
              /\ Connect(e, h, replaced, "insertContent")
              /\ head' = hd
              /\ UNCHANGED extIdx

isDuplicateIgnoringMultiple(e) == srcAttr[e] \in includedSources

isDuplicateOrInFlight(e) ==
    /\ ~hasAttribute(e, "multiple")
    /\ \/ srcAttr[e] \in includedSources
       \/ \E d \in DOMAIN pc :
             /\ pc[d] \in {"fetch", "text", "loadScript", "insertContent"}
             /\ srcAttr[d] = srcAttr[e]

\* Line 178: the dedup gate.
isDuplicate(e) ==
    ~hasAttribute(e, "multiple") /\ srcAttr[e] \in includedSources

\* Lines 175-194: connectedCallback up to `await fetch(candidate1)`.
\* The callbacks of the page's placeholders run in document order.
connectedCallback(e) ==
    /\ e \in DOMAIN pc
    /\ pc[e] = "attached"
    /\ \A d \in Els : d < e => pc[d] # "attached"
    /\ UNCHANGED <<srcAttr, attrs, DOMPurify, includedSources, loadedScripts, html,
                   extIdx, insertResult, doc, head, sanitizeCalls, console,
                   verbose, alerts, resolver>>
    /\ returnedBefore' = [returnedBefore EXCEPT ![e] =
                              {d \in DOMAIN pc : pc[d] \in {"returned", "rejected"}}]
    /\ IF srcAttr[e] = <<>>
       THEN /\ showError(e, "'src' attribute is required.")
            /\ outcome' = [outcome EXCEPT ![e] = "required"]
            /\ pc' = [pc EXCEPT ![e] = "returned"]
            /\ UNCHANGED <<nextSibling, candidate1, requests>>
       ELSE IF isDuplicate(e)
       THEN /\ outcome' = [outcome EXCEPT ![e] = "skipped"]
            /\ pc' = [pc EXCEPT ![e] = "returned"]
            /\ UNCHANGED <<nextSibling, candidate1, requests, shadow>>
       ELSE /\ nextSibling' = [nextSibling EXCEPT ![e] = NextSiblingOf(doc, Placeholder(e))]
            /\ UNCHANGED shadow
            /\ IF ~isFullUrl(srcAttr[e]) /\ Resolve(srcAttr[e], baseURI) = InvalidURL
               THEN \* new URL throws outside the try block: the promise rejects
                    /\ outcome' = [outcome EXCEPT ![e] = "uncaught"]
                    /\ pc' = [pc EXCEPT ![e] = "rejected"]
                    /\ UNCHANGED <<candidate1, requests>>
               ELSE /\ candidate1' = [candidate1 EXCEPT ![e] =
                            primaryCandidate(srcAttr[e], baseURI)]
                    /\ requests' = [requests EXCEPT ![e] = @ + 1]
                    /\ pc' = [pc EXCEPT ![e] = "fetch"]
                    /\ UNCHANGED outcome

\* `await fetch(candidate1)` settles (lines 194-195).
fetchSettled(e) ==
    /\ e \in DOMAIN pc
    /\ pc[e] = "fetch"
    /\ UNCHANGED <<returnedBefore, srcAttr, attrs, DOMPurify, loadedScripts,
                   nextSibling, candidate1, html, extIdx, insertResult, doc, head,
                   requests, sanitizeCalls, verbose, alerts, resolver>>
    /\ \E result \in FetchOutcomes(candidate1[e]) :
          IF result = "ok"
          THEN /\ pc' = [pc EXCEPT ![e] = "text"]
               /\ UNCHANGED <<shadow, outcome, console, includedSources>>
          ELSE ReportFailure(e)

\* `await response.text()` settles; on success the code runs on through the
\* sanitization gate into _insertContent (lines 197-200, 235-271).
textSettled(e) ==
    /\ e \in DOMAIN pc
    /\ pc[e] = "text"
    /\ UNCHANGED <<DOMPurify, verbose, alerts, resolver>>
    /\ \E ok \in BOOLEAN :
          IF ~ok
          THEN /\ ReportFailure(e)
               /\ UNCHANGED <<loadedScripts, html, extIdx, insertResult, doc, head,
                              sanitizeCalls, returnedBefore, srcAttr, attrs,
                              nextSibling, candidate1, requests>>
          ELSE LET text == FragmentOf(Resolve(candidate1[e], baseURI))
                   gate == ~hasAttribute(e, "allow-untrusted")
                           /\ isExternalReference(candidate1[e])
                   h == IF gate /\ DOMPurify THEN Sanitize(text) ELSE text
               IN /\ html' = [html EXCEPT ![e] = h]
                  /\ sanitizeCalls' = IF gate /\ DOMPurify
                                      THEN sanitizeCalls \cup {e} ELSE sanitizeCalls
                  /\ console' = IF gate /\ ~DOMPurify
                                THEN console \cup {Log("warn", e, "DOMPurify not found")}
                                ELSE console
                  /\ loadedScripts' = loadedScripts
                  /\ insertContentFrom(e, 1, h, head)
                  /\ UNCHANGED includedSources

\* The script element appended by loadScript signals load or error
\* (lines 254-259), and the loop goes on.
scriptSettled(e) ==
    /\ e \in DOMAIN pc
    /\ pc[e] = "loadScript"
    /\ UNCHANGED <<DOMPurify, includedSources, html, sanitizeCalls, verbose, alerts, resolver>>
    /\ LET i == CHOOSE j \in DOMAIN head : head[j].el = e /\ head[j].state = "loading"
       IN \E loaded \in BOOLEAN :
            /\ IF loaded
               THEN /\ loadedScripts' = loadedScripts \cup {head[i].src}
                    /\ console' = console
               ELSE /\ loadedScripts' = loadedScripts
                    /\ console' = console \cup {Log("error", e, "Failed to load script")}
            /\ insertContentFrom(e, extIdx[e] + 1, html[e],
                                 [head EXCEPT ![i].state =
                                     IF loaded THEN "loaded" ELSE "failed"])

\* `await this._insertContent(...)` settles (lines 200-206, 230-231).
insertContentSettled(e) ==
    /\ e \in DOMAIN pc
    /\ pc[e] = "insertContent"
    /\ UNCHANGED <<returnedBefore, srcAttr, attrs, DOMPurify, loadedScripts, nextSibling, candidate1,
                   html, extIdx, insertResult, doc, head, requests, sanitizeCalls,
                   verbose, alerts, resolver>>
    /\ IF insertResult[e] = "resolved"
       THEN /\ includedSources' = includedSources \cup {candidate1[e]}
            /\ outcome' = [outcome EXCEPT ![e] = "included"]
            /\ pc' = [pc EXCEPT ![e] = "returned"]
            /\ UNCHANGED <<shadow, console>>
       ELSE ReportFailure(e)

Next ==
    \E e \in Ids :
        \/ connectedCallback(e)
        \/ fetchSettled(e)
        \/ textSettled(e)
        \/ scriptSettled(e)
        \/ insertContentSettled(e)

Spec == Init /\ [][Next]_vars

\* The browser runs the callback of every connected placeholder; every
\* issued fetch responds or fails and its body is read or fails to be read;
\* every appended script element signals load or error; and the
\* continuation of a settled await is run.  Nothing is ever aborted.
Fairness ==
    \A e \in Els :
        /\ WF_vars(connectedCallback(e))
        /\ WF_vars(fetchSettled(e))
        /\ WF_vars(textSettled(e))
        /\ WF_vars(scriptSettled(e))
        /\ WF_vars(insertContentSettled(e))

SpecFair == Init /\ [][Next]_vars /\ Fairness

SpecSite == InitSite /\ [][Next]_vars

-----------------------------------------------------------------------------
(* URL resolution in the variants of connectedCallback: version 0.2.1      *)
(* (lines 41-53), version 0.2.2 (lines 188-189) and version 0.2.1 for      *)
(* GitHub Pages (lines 359-383), each applied to a declared source.        *)

GitHubHosts == {"user.github.io"}

\* Path segments that end in an extension: /\.[^/]+$/
FileNames == {"index.html", "a.html", "x.html"}

\* The pages a source is resolved on: window.location and the href
\* attribute of the <base> element (<<>> when the page has none).
Page(location, base) == [location |-> location, base |-> base]

Pages ==
    { Page(baseURI, <<>>),
      Page(<<"http:", "//", "host", "/", "index.html">>, <<>>),
      Page(<<"https:", "//", "user.github.io", "/", "index.html">>, <<>>),
      Page(<<"https:", "//", "user.github.io", "/", "repo", "/", "index.html">>, <<>>),
      Page(<<"https:", "//", "user.github.io", "/", "repo", "/", "index.html">>,
           <<"/", "repo", "/">>) }

\* The declared sources that are resolved.
ResolverSources ==
    { SrcRelative,
      <<"/", "a.html">>,
      <<"/", "repo", "/", "a.html">>,
      SrcAbsolute,
      SrcCrossOrigin,
      <<"//", "other", "/", "x.html">> }

\* document.baseURI
documentBaseURI(location, base) ==
    IF base = <<>> THEN location ELSE Resolve(base, location)

\* s.replace(/\/$/, '')
WithoutTrailingSlash(s) ==
    IF s # <<>> /\ s[Len(s)] = "/" THEN SubSeq(s, 1, Len(s) - 1) ELSE s

\* window.location.pathname.split('/').filter(Boolean)
parts(location) ==
    SelectSeq(SubSeq(location, 4, Len(location)), LAMBDA t : t # "/")

\* Line 374: the first path segment when it has no extension.
repo(location) ==
    IF parts(location) # <<>> /\ parts(location)[1] \notin FileNames
    THEN <<"/", parts(location)[1]>>
    ELSE <<>>

\* Version 0.2.1, lines 45 and 53: new URL(src, base).href with
\* base = document.querySelector('base')?.href || window.location.origin.
srcUrlOf(src, location, base) ==
    Resolve(src, IF base = <<>> THEN Origin(location) ELSE Resolve(base, location))

\* Version 0.2.1 for GitHub Pages, lines 360-383.
srcUrlPagesOf(src, location, base) ==
    IF isFullUrl(src) THEN src
    ELSE IF src[1] = "/"
    THEN IF base # <<>>
         THEN WithoutTrailingSlash(
                  Resolve(base, documentBaseURI(location, base))) \o src
         ELSE IF location[3] \in GitHubHosts
         THEN Origin(location) \o repo(location) \o src
         ELSE Origin(location) \o src
    ELSE Resolve(src, documentBaseURI(location, base))

InitResolver ==
    /\ \E s \in ResolverSources : \E p \in Pages :
          resolver = [src |-> s, location |-> p.location, base |-> p.base,
                      candidate1 |-> <<>>, srcUrl |-> <<>>, srcUrlPages |-> <<>>]
    /\ srcAttr = <<>> /\ attrs = <<>> /\ pc = <<>> /\ nextSibling = <<>>
    /\ candidate1 = <<>> /\ html = <<>> /\ extIdx = <<>> /\ insertResult = <<>>
    /\ shadow = <<>> /\ requests = <<>> /\ outcome = <<>> /\ returnedBefore = <<>>
    /\ doc = <<>> /\ head = <<>>
    /\ includedSources = {} /\ loadedScripts = {} /\ sanitizeCalls = {}
    /\ console = {} /\ alerts = {}
    /\ DOMPurify = FALSE /\ verbose = FALSE

\* The state of the page, which resolving a url leaves alone.
pageVars == <<srcAttr, attrs, DOMPurify, includedSources, loadedScripts, pc,
              nextSibling, candidate1, html, extIdx, insertResult, doc, head,
              shadow, requests, outcome, sanitizeCalls, returnedBefore, console,
              verbose, alerts>>

\* Version 0.2.2 resolves the source.
resolveCandidate1 ==
    /\ resolver.src # <<>> /\ resolver.candidate1 = <<>>
    /\ resolver' = [resolver EXCEPT !.candidate1 =
            primaryCandidate(resolver.src,
                             documentBaseURI(resolver.location, resolver.base))]
    /\ UNCHANGED pageVars

\* Version 0.2.1 resolves the source.
resolveSrcUrl ==
    /\ resolver.src # <<>> /\ resolver.srcUrl = <<>>
    /\ resolver' = [resolver EXCEPT !.srcUrl =
            srcUrlOf(resolver.src, resolver.location, resolver.base)]
    /\ UNCHANGED pageVars

\* Version 0.2.1 for GitHub Pages resolves the source.
resolveSrcUrlPages ==
    /\ resolver.src # <<>> /\ resolver.srcUrlPages = <<>>
    /\ resolver' = [resolver EXCEPT !.srcUrlPages =
            srcUrlPagesOf(resolver.src, resolver.location, resolver.base)]
    /\ UNCHANGED pageVars

NextResolver ==
    \/ resolveCandidate1
    \/ resolveSrcUrl
    \/ resolveSrcUrlPages

SpecResolver == InitResolver /\ [][NextResolver]_vars

-----------------------------------------------------------------------------
(* Vocabulary of the properties                                            *)

\* The sources the pages declare, each with the url it resolves to.
DeclaredSources == {d.src : d \in Declarations \cup SiteDeclarations}

Resolved == [s \in DeclaredSources |-> Resolve(s, baseURI)]

\* The resolved source identifier of a placeholder.
Source(e) == Resolved[srcAttr[e]]

Resolvable(e) == srcAttr[e] # <<>> /\ Source(e) # InvalidURL

Started(e) == pc[e] # "attached"

\* Two placeholders name the same source: the same declared string, or
\* declared strings that resolve to the same url.
SameSource(e, d) ==
    \/ srcAttr[e] = srcAttr[d] /\ srcAttr[e] # <<>>
    \/ Resolvable(e) /\ Resolvable(d) /\ Source(e) = Source(d)

\* The response arrived with an ok status and its body was read.
FetchSucceeded(e) ==
    pc[e] \in {"loadScript", "insertContent"} \/ insertResult[e] # "pending"

\* The pipeline ended in the error report because of the fetch.
FetchFailed(e) == outcome[e] = "error" /\ insertResult[e] = "pending"

ContentOf(e) == Adopt(e, childNodes(html[e]), "node")

InlineOf(e) == Adopt(e, inline(html[e]), "script")

\* The fragment's nodes stand in the document where the placeholder was.
Spliced(e) ==
    /\ Placeholder(e) \notin Range(doc)
    /\ \A n \in Range(ContentOf(e)) : n \in Range(doc)

\* An inclusion of the source s had completed when e's callback began.
IncludedBefore(e, s) ==
    \E d \in returnedBefore[e] : outcome[d] = "included" /\ Source(d) = s

-----------------------------------------------------------------------------
(* Properties                                                              *)

\* C1: among placeholders without `multiple` that resolve to the same source,
\* at most one fetch-and-insert succeeds, under every interleaving, and a
\* placeholder that starts after that inclusion is skipped and issues no
\* network request.
C1_ExactlyOneInclusion ==
    \A e \in Els : \A d \in Els \ {e} :
        ( /\ SameSource(e, d)
          /\ ~hasAttribute(e, "multiple") /\ ~hasAttribute(d, "multiple")
          /\ outcome[d] = "included" )
        => /\ outcome[e] # "included"
           /\ (d \in returnedBefore[e] => outcome[e] = "skipped" /\ requests[e] = 0)

\* C2: the registry is consulted with the key it is updated with: once the
\* inclusion of a declared source has completed, a placeholder without
\* `multiple` that starts afterwards with the same declared source is skipped
\* and issues no fetch.
C2_RegistryKeyMatches ==
    \A e \in Els : \A d \in returnedBefore[e] :
        ( /\ outcome[d] = "included"
          /\ srcAttr[d] = srcAttr[e]
          /\ ~hasAttribute(e, "multiple") )
        => outcome[e] = "skipped" /\ requests[e] = 0

\* C3: a placeholder that declares `multiple` is never skipped: it issues its
\* own fetch whatever the registry holds, and when its fetch succeeded its own
\* copy of the fragment is in the document once its pipeline has ended.
C3_MultipleAlwaysFetches ==
    \A e \in Els :
        (hasAttribute(e, "multiple") /\ Resolvable(e) /\ Started(e))
        => /\ requests[e] = 1
           /\ outcome[e] # "skipped"
           /\ (pc[e] = "returned" /\ FetchSucceeded(e) => Spliced(e))

\* C3 witness: a `multiple` placeholder has fetched and inserted its copy
\* although the registry held its source when it started.
C3_Witness ==
    \E e \in Els : \E d \in returnedBefore[e] :
        /\ hasAttribute(e, "multiple")
        /\ outcome[d] = "included" /\ candidate1[d] = srcAttr[e]
        /\ outcome[e] = "included" /\ requests[e] = 1
        /\ Spliced(e) /\ Spliced(d)

\* C4: every member of the registry has a completed insertion behind it; a
\* failed fetch leaves the registry as it was; and a placeholder is skipped
\* only because an inclusion of its source had completed, so that after a
\* failed fetch a later placeholder with the same source attempts a fetch.
C4_RegistryOnlyAfterInsertion ==
    /\ [](\A s \in includedSources :
            \E e \in Els : /\ candidate1[e] = s
                           /\ insertResult[e] = "resolved"
                           /\ Spliced(e))
    /\ [](\A e \in Els : \A d \in returnedBefore[e] :
            (FetchFailed(d) /\ SameSource(d, e) /\ ~IncludedBefore(e, Source(e)))
            => requests[e] = 1 /\ outcome[e] # "skipped")
    /\ [][\A e \in Els :
            (pc[e] \in {"fetch", "text"} /\ outcome'[e] = "error")
            => includedSources' = includedSources]_vars

\* C4 witness: a fetch failed, and a placeholder with the same source that
\* started afterwards fetched and was included.
C4_Witness ==
    \E e \in Els : \E d \in returnedBefore[e] :
        /\ FetchFailed(d) /\ SameSource(d, e)
        /\ requests[e] = 1 /\ outcome[e] = "included"
        /\ candidate1[e] \in includedSources

\* C5: a script of a fragment is loaded, or inserted as an executable script
\* element, only when its placeholder declares `allow-scripts`.
C5_ScriptsOnlyWithAllowScripts ==
    /\ \A i \in DOMAIN head : hasAttribute(head[i].el, "allow-scripts")
    /\ \A n \in Range(doc) : n.kind = "script" => hasAttribute(n.el, "allow-scripts")

\* The script elements a pipeline appended to document.head, by position.
LoadsOf(e) == {i \in DOMAIN head : head[i].el = e}

CrossOrigin(e) == Resolvable(e) /\ Origin(Source(e)) # locationOrigin

Warned(e) == Log("warn", e, "DOMPurify not found") \in console

\* C7: the fetched text goes through the sanitizer exactly when the source is
\* cross-origin, `allow-untrusted` is absent and a sanitizer is present;
\* otherwise the text is handed to the insertion verbatim, and the warning is
\* emitted exactly when the sanitizer was wanted and is absent.
C7_SanitizerGate ==
    \A e \in Els :
        LET wanted == CrossOrigin(e) /\ ~hasAttribute(e, "allow-untrusted")
            text == FragmentOf(Source(e))
        IN IF FetchSucceeded(e)
           THEN /\ (e \in sanitizeCalls) = (wanted /\ DOMPurify)
                /\ html[e] = IF wanted /\ DOMPurify THEN Sanitize(text) ELSE text
                /\ Warned(e) = (wanted /\ ~DOMPurify)
           ELSE e \notin sanitizeCalls /\ ~Warned(e)

\* C7 witness: one cross-origin fragment was sanitized (its scripts are gone)
\* while another, declared `allow-untrusted`, was handed over verbatim.
C7_Witness ==
    \E e \in Els : \E d \in Els :
        /\ e \in sanitizeCalls
        /\ html[e] # FragmentOf(Source(e))
        /\ CrossOrigin(d) /\ hasAttribute(d, "allow-untrusted")
        /\ FetchSucceeded(d)
        /\ html[d] = FragmentOf(Source(d))
        /\ d \notin sanitizeCalls

\* C8: a failed fetch is terminal: the placeholder stays in the document and
\* shows the error message, nothing of its fragment is inserted, no script is
\* loaded for it, the two registries and the document are left as they were,
\* and the placeholder issues no further fetch (at most one in its lifetime).
C8_FetchFailureTerminal ==
    /\ [](\A e \in Els :
            /\ requests[e] <= 1
            /\ FetchFailed(e) =>
                 /\ pc[e] = "returned"
                 /\ shadow[e] = "Error loading content"
                 /\ Log("error", e, "Failed to load") \in console
                 /\ Placeholder(e) \in Range(doc)
                 /\ \A n \in Range(doc) : n.kind \in {"node", "script"} => n.el # e
                 /\ LoadsOf(e) = {})
    /\ [][\A e \in Els :
            (pc[e] \in {"fetch", "text"} /\ outcome'[e] = "error")
            => /\ includedSources' = includedSources
               /\ loadedScripts' = loadedScripts
               /\ doc' = doc /\ head' = head]_vars
    /\ [][\A e \in Els :
            FetchFailed(e) => /\ pc'[e] = pc[e] /\ requests'[e] = requests[e]
                              /\ shadow'[e] = shadow[e]]_vars

\* C8 witness: a fetch has failed while the registries are not empty.
C8_Witness ==
    \E e \in Els :
        /\ FetchFailed(e) /\ requests[e] = 1
        /\ shadow[e] = "Error loading content"
        /\ includedSources # {} /\ loadedScripts # {}

\* C9: a declared source that cannot be resolved never makes the pipeline
\* throw: the pipeline ends in the error report (message and diagnostic),
\* and connectedCallback's promise is not rejected.
C9_MalformedSourceReported ==
    \A e \in Els :
        (srcAttr[e] # <<>> /\ Source(e) = InvalidURL /\ Started(e))
        => /\ pc[e] # "rejected"
           /\ pc[e] = "returned" =>
                 /\ outcome[e] = "error"
                 /\ shadow[e] = "Error loading content"
                 /\ Log("error", e, "Failed to load") \in console

\* C10: the failure of one external script is isolated: when the pipeline
\* has ended, the remaining external scripts were handled, the inline
\* scripts are inserted, the content is in the document, the source is
\* marked included, no error message is rendered, and the failed url is not
\* in the Loaded-Script Registry.
C10_ScriptFailureIsolated ==
    \A e \in Els :
        (pc[e] = "returned" /\ \E i \in LoadsOf(e) : head[i].state = "failed")
        => /\ outcome[e] = "included"
           /\ candidate1[e] \in includedSources
           /\ shadow[e] = ""
           /\ Spliced(e)
           /\ \A n \in Range(InlineOf(e)) : n \in Range(doc)
           /\ \A x \in Range(external(html[e])) :
                 Resolve(x.src, candidate1[e]) \in documentScripts(head)
           /\ \A i \in LoadsOf(e) :
                 head[i].state = "failed" => head[i].src \notin loadedScripts

\* The placeholders that arrived inside fetched fragments.
Arrived == {c \in DOMAIN pc : c \notin Els /\ pc[c] # "absent"}

\* C11: includes are single-pass: a placeholder that arrives inside a fetched
\* fragment is inert (it issues no fetch and nothing is inserted for it), and
\* the page issues at most as many fetches as its own markup has placeholders.
C11_NestedPlaceholdersInert ==
    /\ \A c \in Arrived : requests[c] = 0 /\ pc[c] = "returned" /\ html[c] = <<>>
    /\ Cardinality({e \in DOMAIN pc : requests[e] > 0}) <= NumEl

\* The pipelines of all the page's placeholders have ended.
AllEnded == \A e \in DOMAIN pc : pc[e] \in {"returned", "rejected", "absent"}

\* The document without the script elements the pipelines inserted.
Markup(d) == SelectSeq(d, LAMBDA n : n.kind # "script")

\* The sequence d with every placeholder whose inclusion succeeded replaced
\* by the non-script nodes of its fragment.
RECURSIVE Substituted(_)
Substituted(d) ==
    IF d = <<>> THEN <<>>
    ELSE (IF Head(d).kind = "micro-include" /\ outcome[Head(d).el] = "included"
          THEN ContentOf(Head(d).el)
          ELSE <<Head(d)>>)
         \o Substituted(Tail(d))

\* C12: a successful inclusion puts the fragment's non-script nodes, in
\* fragment order, where the placeholder stood; when all pipelines have
\* ended the document is the host markup with each successfully included
\* placeholder substituted by its own fragment's nodes, everything else in
\* its original order.
C12_SubstitutedInPlace ==
    /\ \A e \in Els : outcome[e] = "included" => Spliced(e)
    /\ AllEnded => Markup(doc) = Substituted(HostMarkup(NumEl))

\* C13: no external script url is requested twice: every url is on at most
\* one script element of the page (a script whose url is in the registry or
\* on a script element is skipped), and a url is in the Loaded-Script
\* Registry only when its script element has signalled load.
C13_ScriptRequestedOnce ==
    /\ Cardinality({head[i].src : i \in DOMAIN head}) = Len(head)
    /\ \A s \in loadedScripts :
          \E i \in DOMAIN head : head[i].src = s /\ head[i].state = "loaded"
    /\ \A i \in DOMAIN head :
          head[i].state # "loaded" => head[i].src \notin loadedScripts

\* C13 witness: two pipelines went through fragments with external scripts;
\* one of them loaded two scripts, one of which failed, and the other
\* skipped every script because its url was on a script element already.
C13_Witness ==
    \E e \in Els : \E d \in Els \ {e} :
        /\ insertResult[e] # "pending" /\ insertResult[d] # "pending"
        /\ external(html[e]) # <<>> /\ external(html[d]) # <<>>
        /\ LoadsOf(d) = {}
        /\ Cardinality(LoadsOf(e)) = 2
        /\ \E i \in LoadsOf(e) : head[i].state = "failed"

\* A url without the last segment of its path.
Directory(u) ==
    IF Len(u) = 3 THEN u \o <<"/">>
    ELSE IF u[Len(u)] = "/" THEN u
    ELSE SubSeq(u, 1, Len(u) - 1)

\* Standard resolution of a relative reference made of a path: a path that
\* begins with "/" replaces the path of the base, any other path replaces
\* the last segment of the base's path.
StandardResolution(s, base) ==
    IF s[1] = "/" THEN Origin(base) \o s ELSE Directory(base) \o s

\* The urls the variants have resolved the source to so far.
Resolutions ==
    {resolver.candidate1, resolver.srcUrl, resolver.srcUrlPages} \ {<<>>}

\* The path the page is deployed under when it is not the root of its site:
\* the path of its <base> element, or the project segment of a project site.
DeploymentBasePath ==
    IF resolver.base # <<>>
    THEN LET href == WithoutTrailingSlash(Resolve(resolver.base, resolver.location))
         IN SubSeq(href, 4, Len(href))
    ELSE IF resolver.location[3] \in GitHubHosts THEN repo(resolver.location)
    ELSE <<>>

\* The path s begins with the segments of the path p.
StartsWithPath(s, p) ==
    /\ Len(s) > Len(p)
    /\ SubSeq(s, 1, Len(p)) = p
    /\ s[Len(p) + 1] = "/"

\* C14: a relative declared source (no scheme, not protocol-relative) is
\* resolved as standard url resolution against document.baseURI resolves it,
\* on a page to which no alternate deployment base applies; on the page
\* /docs/index.html, a.html resolves to /docs/a.html.
C14_RelativeAgainstBaseURI ==
    ( /\ resolver.src # <<>> /\ ~isFullUrl(resolver.src)
      /\ DeploymentBasePath = <<>> )
    => \A url \in Resolutions :
          /\ url = StandardResolution(resolver.src,
                       documentBaseURI(resolver.location, resolver.base))
          /\ (resolver.src = SrcRelative /\ resolver.location = baseURI)
                => url = <<"http:", "//", "host", "/", "docs", "/", "a.html">>

\* C15: on a page served from a deployment base path, a root-relative
\* source is resolved with the base path prefixed exactly once: a source
\* that already begins with the base path is not prefixed again.
C15_BasePathPrefixedOnce ==
    ( /\ resolver.src # <<>> /\ resolver.src[1] = "/"
      /\ DeploymentBasePath # <<>>
      /\ resolver.srcUrlPages # <<>> )
    => resolver.srcUrlPages =
          Origin(resolver.location)
          \o (IF StartsWithPath(resolver.src, DeploymentBasePath)
              THEN resolver.src
              ELSE DeploymentBasePath \o resolver.src)

\* C16: when an inclusion fails, a blocking alert is raised exactly when
\* window.verbose is set; the error message and the diagnostic are produced
\* whatever the flag.
C16_AlertIffVerbose ==
    \A e \in DOMAIN pc :
        outcome[e] = "error"
        => /\ (e \in alerts) = verbose
           /\ shadow[e] = "Error loading content"
           /\ Log("error", e, "Failed to load") \in console

\* The sequence ns stands in the document d, its nodes next to one another.
StandsIn(d, ns) ==
    \E i \in 1..(Len(d) + 1) :
        /\ i + Len(ns) - 1 <= Len(d)
        /\ SubSeq(d, i, i + Len(ns) - 1) = ns

\* C17: under every interleaving, once _insertContent has ended the inline
\* scripts of the fragment stand at the placeholder's original position: in
\* fragment order, directly after the inserted content and so before
\* whatever followed the placeholder.
C17_InlineScriptsInPlace ==
    \A e \in Els :
        (pc[e] \in {"insertContent", "returned"} /\ FetchSucceeded(e))
        => StandsIn(doc, ContentOf(e) \o InlineOf(e))

\* C18: within a pipeline the placeholder is replaced by the fragment's
\* content before any external script of the fragment starts loading: while
\* a script of the pipeline loads, and when it has loaded or failed, the
\* content is in the document.
C18_ContentBeforeScripts ==
    \A i \in DOMAIN head :
        /\ Placeholder(head[i].el) \notin Range(doc)
        /\ StandsIn(doc, ContentOf(head[i].el))

\* Two placeholders without `multiple` that name the same source and run
\* concurrently: neither callback had ended when the other began.
Concurrent(e, d) ==
    /\ e # d
    /\ Started(e) /\ Started(d)
    /\ e \notin returnedBefore[d] /\ d \notin returnedBefore[e]
    /\ ~hasAttribute(e, "multiple") /\ ~hasAttribute(d, "multiple")
    /\ Resolvable(e) /\ Resolvable(d) /\ SameSource(e, d)

\* The placeholder was skipped, or has issued no fetch.
HeldBack(e) == requests[e] # 1 \/ outcome[e] = "skipped"

ExternalUrlsOf(e) ==
    {Resolve(external(html[e])[k].src, candidate1[e]) : k \in DOMAIN external(html[e])}

\* An inline script of the pipeline's fragment is in the document.
InlineInserted(e) == \E n \in Range(InlineOf(e)) : n \in Range(doc)

\* C21: when a pipeline has inserted an inline script of its fragment, no
\* script element carrying the url of one of that fragment's external
\* scripts is still loading, whichever pipeline appended the element: the
\* scripts the pipeline skipped have settled as well.
C21_SkippedScriptsSettled ==
    \A e \in Els :
        InlineInserted(e)
        => \A i \in DOMAIN head :
              head[i].src \in ExternalUrlsOf(e) => head[i].state # "loading"

\* The error report of lines 230-231 ran for the placeholder.
ErrorReported(e) == Log("error", e, "Failed to load") \in console

\* A node of the placeholder's fragment is in the document.
ContentInDocument(e) ==
    \E n \in Range(doc) : n.el = e /\ n.kind \in {"node", "script"}

\* C22: the outcome of a pipeline that has ended is consistent with the
\* document and the registry: when the fragment's content was spliced in,
\* the source is in the Dedup Registry and no error was reported; when an
\* error was reported, nothing of the fragment is in the document.
C22_OutcomesConsistent ==
    \A e \in Els :
        pc[e] = "returned"
        => /\ Spliced(e) => /\ candidate1[e] \in includedSources
                            /\ ~ErrorReported(e)
                            /\ outcome[e] = "included"
           /\ ErrorReported(e) => ~ContentInDocument(e)

\* The pipeline has ended in one of its outcomes: the placeholder was skipped
\* as a duplicate, its content was inserted, or an error was rendered.
Terminal(e) ==
    /\ pc[e] = "returned"
    /\ outcome[e] \in {"skipped", "included", "error", "required"}

\* The callback is no longer suspended at an await and will not run again.
Settled(e) == pc[e] \in {"returned", "rejected"}

\* C23: when every fetch and every script load settles, the pipeline of
\* every placeholder eventually ends skipped, inserted or with its error
\* rendered, and stays so.
C23_EveryPipelineTerminates ==
    \A e \in Els : <>[]Terminal(e)

\* Every callback eventually leaves its last await for good, in whichever
\* way it ends.
NoneSuspendedForever ==
    \A e \in Els : <>[]Settled(e)

====
